---- MODULE Spec2Model ----
(***************************************************************************)
(* MQTT state media player (schema_state.py): the entity's fields, the     *)
(* state-topic message handler and the outbound service calls.             *)
(*                                                                         *)
(* JSON / Python values are tagged records so that values of different     *)
(* Python types can be compared: Null is None, Str(s) a str, Num(n) an     *)
(* int, List an (unhashable) JSON array.                                    *)
(***************************************************************************)
EXTENDS Integers, Sequences, FiniteSets, TLC

VARIABLES
    _command_topic,        \* self._command_topic        (str | None)
    _set_volume_topic,     \* self._set_volume_topic     (str | None)
    _send_command_topic,   \* self._send_command_topic   (str | None)
    _payloads,             \* self._payloads             (conf key -> str | None)
    supported_features,    \* self._attr_supported_features (set of feature names)
    source_list,           \* self._attr_source_list     (sequence of str)
    _attr_state,           \* self._attr_state
    _state_attrs,          \* self._state_attrs          (dict)
    _attr_fan_speed,       \* self._attr_fan_speed
    _attr_battery_level,   \* self._attr_battery_level
    last,                  \* the most recent call on the entity and its effects
    notified               \* the tracked attributes the most recent call's
                           \* write_state_on_attr_change saw changed

cfgvars == <<_command_topic, _set_volume_topic, _send_command_topic, _payloads,
             supported_features, source_list>>
devvars == <<_attr_state, _state_attrs, _attr_fan_speed, _attr_battery_level>>
vars == <<_command_topic, _set_volume_topic, _send_command_topic, _payloads,
          supported_features, source_list, _attr_state, _state_attrs,
          _attr_fan_speed, _attr_battery_level, last, notified>>

(***************************************************************************)
(* Values                                                                  *)
(***************************************************************************)
Null == [t |-> "null", s |-> "", n |-> 0]
Str(x) == [t |-> "str", s |-> x, n |-> 0]
Num(x) == [t |-> "num", s |-> "", n |-> x]
List == [t |-> "list", s |-> "", n |-> 0]

EmptyDict == [k \in {} |-> Null]

\* dict.get(key, default)
Get(d, k, default) == IF k \in DOMAIN d THEN d[k] ELSE default

\* dict.update(other): keys of other overwrite, all other keys persist
Update(d, other) ==
    [k \in (DOMAIN d) \cup (DOMAIN other) |->
        IF k \in DOMAIN other THEN other[k] ELSE d[k]]

\* del d[key]
Del(d, key) == [k \in (DOMAIN d) \ {key} |-> d[k]]

(***************************************************************************)
(* Module constants                                                        *)
(***************************************************************************)
STATE_ON == "on"
STATE_OFF == "off"
STATE_PLAYING == "playing"
STATE_PAUSED == "paused"

BATTERY == "battery_level"
FAN_SPEED == "fan_speed"
\* STATE in the source (a reserved word here)
STATE_KEY == "state"

POSSIBLE_STATES_Extra ==
    [x \in {STATE_ON, STATE_OFF, STATE_PLAYING, STATE_PAUSED, "bogus"} |-> x]

POSSIBLE_STATES ==
    [x \in {STATE_ON, STATE_OFF, STATE_PLAYING, STATE_PAUSED} |-> x]

SERVICE_TO_STRING_WithSendCommand ==
    [ PAUSE |-> "pause", SEEK |-> "seek", VOLUME_SET |-> "volume_set",
      VOLUME_MUTE |-> "volume_mute", PREVIOUS_TRACK |-> "previous_track",
      NEXT_TRACK |-> "next_track", TURN_ON |-> "turn_on",
      TURN_OFF |-> "turn_off", PLAY_MEDIA |-> "play_media",
      VOLUME_STEP |-> "volume_step", SELECT_SOURCE |-> "select_source",
      STOP |-> "stop", CLEAR_PLAYLIST |-> "clear_playlist", PLAY |-> "play",
      SHUFFLE_SET |-> "shuffle_set", SELECT_SOUND_MODE |-> "select_sound_mode",
      BROWSE_MEDIA |-> "browse_media", REPEAT_SET |-> "repeat_set",
      GROUPING |-> "grouping", MEDIA_ANNOUNCE |-> "media_announce",
      MEDIA_ENQUEUE |-> "media_enqueue", SEND_COMMAND |-> "send_command" ]

SERVICE_TO_STRING ==
    [ PAUSE |-> "pause", SEEK |-> "seek", VOLUME_SET |-> "volume_set",
      VOLUME_MUTE |-> "volume_mute", PREVIOUS_TRACK |-> "previous_track",
      NEXT_TRACK |-> "next_track", TURN_ON |-> "turn_on",
      TURN_OFF |-> "turn_off", PLAY_MEDIA |-> "play_media",
      VOLUME_STEP |-> "volume_step", SELECT_SOURCE |-> "select_source",
      STOP |-> "stop", CLEAR_PLAYLIST |-> "clear_playlist", PLAY |-> "play",
      SHUFFLE_SET |-> "shuffle_set", SELECT_SOUND_MODE |-> "select_sound_mode",
      BROWSE_MEDIA |-> "browse_media", REPEAT_SET |-> "repeat_set",
      GROUPING |-> "grouping", MEDIA_ANNOUNCE |-> "media_announce",
      MEDIA_ENQUEUE |-> "media_enqueue" ]

\* {v: k for k, v in SERVICE_TO_STRING.items()}, as the set of <<string, feature>>
STRING_TO_SERVICE ==
    {<<SERVICE_TO_STRING[f], f>> : f \in DOMAIN SERVICE_TO_STRING}

DEFAULT_SERVICES ==
    {"TURN_ON", "TURN_OFF", "PLAY", "PAUSE", "STOP", "VOLUME_SET",
     "VOLUME_MUTE", "SELECT_SOURCE"}

\* services_to_strings(DEFAULT_SERVICES, SERVICE_TO_STRING)
DEFAULT_SERVICE_STRINGS == {SERVICE_TO_STRING[f] : f \in DEFAULT_SERVICES}

\* feature -> configuration key of its payload
_FEATURE_PAYLOADS ==
    [ PAUSE |-> "payload_pause", SEEK |-> "payload_seek",
      VOLUME_SET |-> "payload_volume_set",
      VOLUME_MUTE |-> "payload_volume_mute",
      PREVIOUS_TRACK |-> "payload_previous_track",
      NEXT_TRACK |-> "payload_next_track", TURN_ON |-> "payload_turn_on",
      TURN_OFF |-> "payload_turn_off", PLAY_MEDIA |-> "payload_play_media",
      VOLUME_STEP |-> "payload_volume_step",
      SELECT_SOURCE |-> "payload_select_source", STOP |-> "payload_stop",
      CLEAR_PLAYLIST |-> "payload_clear_playlist", PLAY |-> "payload_play",
      SHUFFLE_SET |-> "payload_shuffle_set",
      SELECT_SOUND_MODE |-> "payload_select_sound_mode",
      BROWSE_MEDIA |-> "payload_browse_media",
      REPEAT_SET |-> "payload_repeat_set", GROUPING |-> "payload_grouping",
      MEDIA_ANNOUNCE |-> "payload_media_announce",
      MEDIA_ENQUEUE |-> "payload_media_enqueue" ]

PayloadKeys == {_FEATURE_PAYLOADS[f] : f \in DOMAIN _FEATURE_PAYLOADS}

\* the vol.Optional(..., default=DEFAULT_PAYLOAD_*) entries of the schema
DEFAULT_PAYLOADS ==
    [ payload_pause |-> "pause", payload_previous_track |-> "previous",
      payload_next_track |-> "next", payload_stop |-> "stop",
      payload_clear_playlist |-> "clear_playlist", payload_play |-> "play",
      payload_browse_media |-> "browse",
      payload_media_announce |-> "media_announce" ]

(***************************************************************************)
(* Configurations: what the schema hands to _setup_from_config.  Every     *)
(* combination of the three publish topics being set or not, under the     *)
(* schema's defaults and under a setup that changes each other setting.    *)
(***************************************************************************)
TopicChoices(name) == {Null, Str(name)}

\* source_list [], supported_features DEFAULT_SERVICE_STRINGS, no payload_*
\* key given: the schema's defaults
DefaultSetup ==
    [ source_list |-> <<>>,
      supported_features |-> DEFAULT_SERVICE_STRINGS,
      payloads |-> EmptyDict ]

\* a source list, no enabled feature, and payload_* keys given (the keys the
\* schema has no default for come from the media-player base schema when it
\* admits them)
CustomSetup ==
    [ source_list |-> <<"TV", "Radio">>,
      supported_features |-> {},
      payloads |->
        [ payload_pause |-> "PAUSE", payload_turn_on |-> "ON",
          payload_turn_off |-> "OFF", payload_volume_set |-> "VOL",
          payload_volume_mute |-> "MUTE", payload_select_source |-> "SRC" ] ]

\* the custom setup asking for "send_command" as a supported feature
SendCommandSetup ==
    [ source_list |-> <<"TV", "Radio">>,
      supported_features |-> {"send_command"},
      payloads |-> CustomSetup.payloads ]

\* supported_features: a list of names, each in STRING_TO_SERVICE.keys()
ValidFeatureStrings(L) == \A x \in L : \E p \in STRING_TO_SERVICE : p[1] = x

\* the setups the schema accepts
Setups == {c \in {DefaultSetup, CustomSetup, SendCommandSetup} :
              ValidFeatureStrings(c.supported_features)}

Configs ==
    { [ command_topic |-> ct, set_volume_topic |-> vt,
        send_command_topic |-> st, source_list |-> c.source_list,
        supported_features |-> c.supported_features,
        payloads |-> c.payloads ] :
      ct \in TopicChoices("cmd"), vt \in TopicChoices("vol"),
      st \in TopicChoices("send"), c \in Setups }

\* config.get(key) for a payload_* key, after the schema filled its defaults
ConfigGetPayload(config, key) ==
    IF key \in DOMAIN config.payloads THEN Str(config.payloads[key])
    ELSE IF key \in DOMAIN DEFAULT_PAYLOADS THEN Str(DEFAULT_PAYLOADS[key])
    ELSE Null

\* strings_to_services(strings, STRING_TO_SERVICE): the features named
strings_to_services(strings) ==
    {p[2] : p \in {q \in STRING_TO_SERVICE : q[1] \in strings}}

(***************************************************************************)
(* The record of the most recent call                                      *)
(***************************************************************************)
NoMsg == [kind |-> "none", obj |-> EmptyDict]
NoParams == [kind |-> "none", obj |-> EmptyDict]

\* the calls a handler makes on the host, in the order it makes them
Publish(topic, payload) ==
    [call |-> "async_publish", topic |-> topic, payload |-> payload]
WriteHaState ==
    [call |-> "async_write_ha_state", topic |-> Null, payload |-> Null]

IsPublish(e) == e.call = "async_publish"
IsWriteHaState(e) == e.call = "async_write_ha_state"

\* what a call did: the host calls it made, in order (events); of these the
\* async_publish calls (published) and the number of async_write_ha_state
\* calls; the exception it raised ("" for none)
Effect(events, raised) ==
    LET pubs == SelectSeq(events, IsPublish)
    IN  [ events |-> events,
          published |-> [i \in 1..Len(pubs) |->
                           [topic |-> pubs[i].topic, payload |-> pubs[i].payload]],
          write_ha_state |-> Len(SelectSeq(events, IsWriteHaState)),
          raised |-> raised ]

NoEffect == Effect(<<>>, "")

Call(op, msg, arg, params, effect) ==
    [ op |-> op, msg |-> msg, arg |-> arg, params |-> params,
      events |-> effect.events,
      published |-> effect.published,
      write_ha_state |-> effect.write_ha_state,
      raised |-> effect.raised ]

(***************************************************************************)
(* Construction                                                            *)
(***************************************************************************)
\* __init__ and _setup_from_config
SetupFromConfig(config) ==
    /\ supported_features =
           {"STATE"} \cup strings_to_services(config.supported_features)
    /\ source_list = config.source_list
    /\ _command_topic = config.command_topic
    /\ _set_volume_topic = config.set_volume_topic
    /\ _send_command_topic = config.send_command_topic
    /\ _payloads = [key \in PayloadKeys |-> ConfigGetPayload(config, key)]

Init ==
    /\ \E config \in Configs : SetupFromConfig(config)
    /\ _state_attrs = EmptyDict
    /\ _attr_state = Null
    /\ _attr_fan_speed = Null
    /\ _attr_battery_level = Null
    /\ last = Call("__init__", NoMsg, Null, NoParams, NoEffect)
    /\ notified = {}

(***************************************************************************)
(* Inbound messages on the state topic                                     *)
(***************************************************************************)
MaxKeys == 2

MsgKeys == {STATE_KEY, FAN_SPEED, BATTERY, "foo"}

ValuesOf(k) ==
    IF k = STATE_KEY
      THEN {Str(STATE_ON), Str(STATE_OFF), Str(STATE_PLAYING),
            Str(STATE_PAUSED), Null, Str("bogus"), List}
    ELSE IF k = FAN_SPEED THEN {Num(3)}
    ELSE IF k = BATTERY THEN {Num(-5), Num(150)}
    ELSE {Num(1)}

AllValues == UNION {ValuesOf(k) : k \in MsgKeys}

\* JSON objects with at most MaxKeys keys
Objects ==
    UNION { {o \in [K -> AllValues] : \A k \in K : o[k] \in ValuesOf(k)} :
            K \in {S \in SUBSET MsgKeys : Cardinality(S) <= MaxKeys} }

\* msg.payload: text that is not JSON, JSON that is not an object, or an object
Messages ==
    {[kind |-> "invalid", obj |-> EmptyDict],
     [kind |-> "array", obj |-> EmptyDict]}
    \cup {[kind |-> "object", obj |-> o] : o \in Objects}

\* json_loads_object(msg.payload): the dict, or the exception raised
json_loads_object(msg) ==
    IF msg.kind = "object" THEN [raised |-> "", value |-> msg.obj]
    ELSE IF msg.kind = "invalid"
      THEN [raised |-> "JSONDecodeError", value |-> EmptyDict]
    ELSE [raised |-> "ValueError", value |-> EmptyDict]

\* `state in POSSIBLE_STATES` hashes state: a JSON array raises TypeError
Unhashable(v) == v.t = "list"

InPossibleStates(v) == v.t = "str" /\ v.s \in DOMAIN POSSIBLE_STATES

StateAcceptedLiteralOnly(payload) ==
    /\ STATE_KEY \in DOMAIN payload
    /\ InPossibleStates(payload[STATE_KEY])

\* STATE in payload and (payload[STATE] in POSSIBLE_STATES or state is None)
StateAccepted(payload) ==
    /\ STATE_KEY \in DOMAIN payload
    /\ (InPossibleStates(payload[STATE_KEY]) \/ payload[STATE_KEY] = Null)

\* POSSIBLE_STATES[cast(str, state)] if payload[STATE] else None
NewAttrState(payload) ==
    IF payload[STATE_KEY] # Null /\ payload[STATE_KEY] # Str("")
      THEN Str(POSSIBLE_STATES[payload[STATE_KEY].s])
      ELSE Null

ClampNoUpper(v) == IF v < 0 THEN 0 ELSE v

\* max(0, min(100, v))
Clamp(v) == IF v < 0 THEN 0 ELSE IF v > 100 THEN 100 ELSE v

\* _update_state_attributes(payload); min() raises TypeError on a value that
\* is no number, after _state_attrs and _attr_fan_speed were assigned
UpdateStateAttributes(op, msg, payload) ==
    LET attrs == Update(_state_attrs, payload)
        level == Get(attrs, BATTERY, Num(0))
    IN  /\ _state_attrs' = attrs
        /\ _attr_fan_speed' = Get(attrs, FAN_SPEED, Num(0))
        /\ IF level.t = "num"
             THEN /\ _attr_battery_level' = Num(Clamp(level.n))
                  /\ last' = Call(op, msg, Null, NoParams, NoEffect)
             ELSE /\ UNCHANGED _attr_battery_level
                  /\ last' = Call(op, msg, Null, NoParams,
                                  Effect(<<>>, "TypeError"))

TrackedAttrsNoFanSpeed == {"_attr_battery_level", "_attr_state"}

\* the attributes the handler is decorated to track
TrackedAttrs == {"_attr_battery_level", "_attr_fan_speed", "_attr_state"}

\* write_state_on_attr_change(self, TrackedAttrs) around the handler: the
\* tracked attributes are read before and after the handler, and a state
\* write is requested when one of them changed; an exception of the handler
\* passes through and nothing is requested
WriteStateOnAttrChange ==
    notified' =
        IF last'.raised # "" THEN {}
        ELSE TrackedAttrs \cap
             ( (IF _attr_state' # _attr_state THEN {"_attr_state"} ELSE {})
               \cup (IF _attr_fan_speed' # _attr_fan_speed
                       THEN {"_attr_fan_speed"} ELSE {})
               \cup (IF _attr_battery_level' # _attr_battery_level
                       THEN {"_attr_battery_level"} ELSE {}) )

\* state_message_received(msg), as subscribed (with its decorators)
StateMessageReceived(msg) ==
    LET loaded == json_loads_object(msg)
        payload == loaded.value
    IN  /\ UNCHANGED cfgvars
        /\ IF loaded.raised # ""
             THEN /\ UNCHANGED devvars
                  /\ last' = Call("state_message_received", msg, Null, NoParams,
                                  Effect(<<>>, loaded.raised))
           ELSE IF STATE_KEY \in DOMAIN payload /\ Unhashable(payload[STATE_KEY])
             THEN /\ UNCHANGED devvars
                  /\ last' = Call("state_message_received", msg, Null, NoParams,
                                  Effect(<<>>, "TypeError"))
           ELSE IF StateAccepted(payload)
             THEN /\ _attr_state' = NewAttrState(payload)
                  /\ UpdateStateAttributes("state_message_received", msg,
                                           Del(payload, STATE_KEY))
             ELSE /\ UNCHANGED _attr_state
                  /\ UpdateStateAttributes("state_message_received", msg,
                                           payload)
        /\ WriteStateOnAttrChange

(***************************************************************************)
(* Outbound service calls                                                  *)
(***************************************************************************)
PublishCommandAnyTopic(feature) ==
    Effect(<<Publish(_command_topic, _payloads[_FEATURE_PAYLOADS[feature]]),
             WriteHaState>>, "")

PublishCommandNoWrite(feature) ==
    IF _command_topic = Null
      THEN NoEffect
      ELSE Effect(<<Publish(_command_topic,
                            _payloads[_FEATURE_PAYLOADS[feature]])>>, "")

PublishCommandGated(feature) ==
    IF _command_topic = Null \/ feature \notin supported_features
      THEN NoEffect
      ELSE Effect(<<Publish(_command_topic,
                            _payloads[_FEATURE_PAYLOADS[feature]]),
                    WriteHaState>>, "")

\* _async_publish_command(feature): the effect of the call
PublishCommand(feature) ==
    IF _command_topic = Null
      THEN NoEffect
      ELSE Effect(<<Publish(_command_topic,
                            _payloads[_FEATURE_PAYLOADS[feature]]),
                    WriteHaState>>, "")

DoneOptimistic(op, arg, params, effect) ==
    /\ last' = Call(op, NoMsg, arg, params, effect)
    /\ notified' = {}
    /\ UNCHANGED cfgvars
    /\ _attr_state' = IF op = "async_turn_off" /\ effect.published # <<>>
                        THEN Str(STATE_OFF) ELSE _attr_state
    /\ UNCHANGED <<_state_attrs, _attr_fan_speed, _attr_battery_level>>

Done(op, arg, params, effect) ==
    /\ last' = Call(op, NoMsg, arg, params, effect)
    /\ notified' = {}
    /\ UNCHANGED cfgvars
    /\ UNCHANGED devvars

AsyncTurnOff == Done("async_turn_off", Null, NoParams, PublishCommand("TURN_OFF"))

AsyncTurnOn == Done("async_turn_on", Null, NoParams, PublishCommand("TURN_ON"))

\* volume is 0..1 in the source; here in hundredths
Volumes == {Num(0), Num(50)}

AsyncSetVolumeLevel(volume) ==
    Done("async_set_volume_level", volume, NoParams, PublishCommand("VOLUME_SET"))

\* Python booleans
True == [t |-> "bool", s |-> "", n |-> 1]
False == [t |-> "bool", s |-> "", n |-> 0]

AsyncMuteVolumeOnlyMute(mute) ==
    Done("async_mute_volume", mute, NoParams,
         IF mute = True THEN PublishCommand("VOLUME_MUTE") ELSE NoEffect)

AsyncMuteVolume(mute) ==
    Done("async_mute_volume", mute, NoParams,
         IF mute = True THEN PublishCommand("VOLUME_MUTE")
                        ELSE PublishCommand("VOLUME_MUTE"))

Range(seq) == {seq[i] : i \in DOMAIN seq}

Sources == {"TV", "Radio", "Aux"}

SelectSourceUnchecked(source) == PublishCommand("SELECT_SOURCE")

SelectSourceSendsName(source) ==
    IF source \in Range(source_list)
      THEN IF _command_topic = Null
             THEN NoEffect
             ELSE Effect(<<Publish(_command_topic, Str(source)), WriteHaState>>,
                         "")
      ELSE Effect(<<>>, "ValueError")

\* the effect of async_select_source(source)
SelectSource(source) ==
    IF source \in Range(source_list)
      THEN PublishCommand("SELECT_SOURCE")
      ELSE Effect(<<>>, "ValueError")

AsyncSelectSource(source) ==
    Done("async_select_source", Str(source), NoParams, SelectSource(source))

AsyncPause == Done("async_pause", Null, NoParams, PublishCommand("PAUSE"))

AsyncMediaPlay == Done("async_media_play", Null, NoParams, PublishCommand("PLAY"))

AsyncMediaPause ==
    Done("async_media_pause", Null, NoParams, PublishCommand("PAUSE"))

AsyncMediaPreviousTrack ==
    Done("async_media_previous_track", Null, NoParams,
         PublishCommand("PREVIOUS_TRACK"))

AsyncMediaNextTrack ==
    Done("async_media_next_track", Null, NoParams, PublishCommand("NEXT_TRACK"))

Commands == {"foo"}

\* params: None, a list, or a dict
ParamsChoices ==
    { NoParams,
      [kind |-> "list", obj |-> EmptyDict],
      [kind |-> "dict", obj |-> EmptyDict],
      [kind |-> "dict", obj |-> [bar |-> Num(1)]],
      [kind |-> "dict", obj |-> [command |-> Str("other"), bar |-> Num(1)]] }

\* json_dumps(message): the JSON text of the object
json_dumps(message) == [t |-> "json", object |-> message]

SendCommandMessageCommandWins(command, params) ==
    Update(params.obj, [command |-> Str(command)])

\* message = {"command": command}; message.update(params)
SendCommandMessage(command, params) ==
    Update([command |-> Str(command)], params.obj)

SendCommandUngated(command, params) ==
    IF _send_command_topic = Null
      THEN NoEffect
      ELSE Effect(<<Publish(_send_command_topic,
                            IF params.kind = "dict"
                              THEN json_dumps(SendCommandMessage(command, params))
                              ELSE Str(command))>>, "")

\* the effect of async_send_command(command, params)
SendCommand(command, params) ==
    IF _send_command_topic = Null \/ "SEND_COMMAND" \notin supported_features
      THEN NoEffect
      ELSE Effect(<<Publish(_send_command_topic,
                            IF params.kind = "dict"
                              THEN json_dumps(SendCommandMessage(command, params))
                              ELSE Str(command))>>, "")

AsyncSendCommand(command, params) ==
    Done("async_send_command", Str(command), params, SendCommand(command, params))

Next ==
    \/ \E msg \in Messages : StateMessageReceived(msg)
    \/ AsyncTurnOff
    \/ AsyncTurnOn
    \/ \E volume \in Volumes : AsyncSetVolumeLevel(volume)
    \/ \E mute \in {True, False} : AsyncMuteVolume(mute)
    \/ \E source \in Sources : AsyncSelectSource(source)
    \/ AsyncPause
    \/ AsyncMediaPlay
    \/ AsyncMediaPause
    \/ AsyncMediaPreviousTrack
    \/ AsyncMediaNextTrack
    \/ \E command \in Commands, params \in ParamsChoices :
          AsyncSendCommand(command, params)

Spec == Init /\ [][Next]_vars

(***************************************************************************)
(* The same entity with the feature mask as an input: supported_features   *)
(* is an attribute of the entity, and the handlers are explored for every  *)
(* value of the SEND_COMMAND bit, which no configuration string names.     *)
(***************************************************************************)
InitAnyFeatures ==
    /\ \E config \in Configs, extra \in SUBSET {"SEND_COMMAND"} :
         /\ supported_features =
               {"STATE"} \cup strings_to_services(config.supported_features)
                         \cup extra
         /\ source_list = config.source_list
         /\ _command_topic = config.command_topic
         /\ _set_volume_topic = config.set_volume_topic
         /\ _send_command_topic = config.send_command_topic
         /\ _payloads = [key \in PayloadKeys |-> ConfigGetPayload(config, key)]
    /\ _state_attrs = EmptyDict
    /\ _attr_state = Null
    /\ _attr_fan_speed = Null
    /\ _attr_battery_level = Null
    /\ last = Call("__init__", NoMsg, Null, NoParams, NoEffect)
    /\ notified = {}

\* the service calls alone
NextCalls ==
    \/ AsyncTurnOff
    \/ AsyncTurnOn
    \/ \E volume \in Volumes : AsyncSetVolumeLevel(volume)
    \/ \E mute \in {True, False} : AsyncMuteVolume(mute)
    \/ \E source \in Sources : AsyncSelectSource(source)
    \/ AsyncPause
    \/ AsyncMediaPlay
    \/ AsyncMediaPause
    \/ AsyncMediaPreviousTrack
    \/ AsyncMediaNextTrack
    \/ \E command \in Commands, params \in ParamsChoices :
          AsyncSendCommand(command, params)

SpecAnyFeatures == InitAnyFeatures /\ [][NextCalls]_vars

(***************************************************************************)
(* Service calls interleaved with inbound messages, with the feature mask  *)
(* as an input, for the configurations without set_volume_topic (which no  *)
(* handler reads).                                                         *)
(***************************************************************************)
InitInterleaved == InitAnyFeatures /\ _set_volume_topic = Null

SpecInterleaved == InitInterleaved /\ [][Next]_vars

(***************************************************************************)
(* Vocabulary of the properties                                            *)
(***************************************************************************)
Received == last.op = "state_message_received"

\* the feature each command-topic call publishes
OpFeature ==
    [ async_turn_off |-> "TURN_OFF", async_turn_on |-> "TURN_ON",
      async_set_volume_level |-> "VOLUME_SET",
      async_mute_volume |-> "VOLUME_MUTE",
      async_select_source |-> "SELECT_SOURCE", async_pause |-> "PAUSE",
      async_media_play |-> "PLAY", async_media_pause |-> "PAUSE",
      async_media_previous_track |-> "PREVIOUS_TRACK",
      async_media_next_track |-> "NEXT_TRACK" ]

IsCommandOp(op) == op \in DOMAIN OpFeature
IsOutboundOp(op) == IsCommandOp(op) \/ op = "async_send_command"

\* the topic a call publishes to
OutboundTopic(op) ==
    IF op = "async_send_command" THEN _send_command_topic ELSE _command_topic

StatusValues ==
    {Str("on"), Str("off"), Str("playing"), Str("paused"), Null}

(***************************************************************************)
(* C1: the playback status is always one of on, off, playing, paused or    *)
(* unknown (None), and a message whose `state` is neither one of the four  *)
(* literals nor null leaves the status as it was before the message.       *)
(***************************************************************************)
C1_StatusClosed ==
    /\ [](_attr_state \in StatusValues)
    /\ [][ ( /\ last'.op = "state_message_received"
             /\ last'.msg.kind = "object"
             /\ STATE_KEY \in DOMAIN last'.msg.obj
             /\ last'.msg.obj[STATE_KEY] \notin StatusValues )
           => _attr_state' = _attr_state ]_vars

C1_Witness ==
    /\ Received
    /\ last.msg.kind = "object"
    /\ STATE_KEY \in DOMAIN last.msg.obj
    /\ last.msg.obj[STATE_KEY] = Str("bogus")
    /\ _attr_state = Str("playing")

(***************************************************************************)
(* C2: async_set_volume_level(v) with the volume-set topic configured      *)
(* publishes the configured VolumeSet payload to the volume-set topic      *)
(* exactly once, whatever v is.                                            *)
(***************************************************************************)
C2_VolumeSetToVolumeTopic ==
    (last.op = "async_set_volume_level" /\ _set_volume_topic # Null)
    => last.published =
         <<[topic |-> _set_volume_topic,
            payload |-> _payloads["payload_volume_set"]]>>

(***************************************************************************)
(* C3: the `state` key of a payload is never merged into the extras:       *)
(* _state_attrs has no key `state`.                                        *)
(***************************************************************************)
C3_NoStateKeyInExtras == STATE_KEY \notin DOMAIN _state_attrs

(***************************************************************************)
(* C4: a malformed payload (not JSON, or JSON that is no object) is        *)
(* dropped: status, fan speed, battery level and extras are unchanged and  *)
(* no exception leaves the message handler.                                *)
(***************************************************************************)
C4_MalformedDropped ==
    [][ (last'.op = "state_message_received" /\ last'.msg.kind # "object")
        => (UNCHANGED devvars /\ last'.raised = "") ]_vars

(***************************************************************************)
(* C5: a call whose feature has no payload (no schema default and none     *)
(* configured) publishes nothing, even with the command topic configured.  *)
(***************************************************************************)
C5_NoPayloadNoPublish ==
    ( /\ IsCommandOp(last.op)
      /\ _payloads[_FEATURE_PAYLOADS[OpFeature[last.op]]] = Null )
    => last.published = <<>>

(***************************************************************************)
(* C6: async_select_source(s) with s not in the source list raises         *)
(* ValueError, publishes nothing and writes no state, in every             *)
(* configuration and state; with s in the list and the command topic       *)
(* configured it publishes exactly once, to the command topic.             *)
(***************************************************************************)
C6_SelectSourceValidated ==
    last.op = "async_select_source" =>
        IF \A i \in DOMAIN source_list : source_list[i] # last.arg.s
          THEN /\ last.raised = "ValueError"
               /\ last.published = <<>>
               /\ last.write_ha_state = 0
          ELSE _command_topic # Null =>
                 /\ Len(last.published) = 1
                 /\ last.published[1].topic = _command_topic
                 /\ last.raised = ""

C6_Witness ==
    /\ last.op = "async_select_source"
    /\ last.arg = Str("Aux")
    /\ source_list = <<"TV", "Radio">>
    /\ _command_topic # Null
    /\ last.raised = "ValueError"
    /\ last.published = <<>>

(***************************************************************************)
(* C7, as claimed: every outbound call whose topic is not configured is a  *)
(* silent no-op for every argument: nothing published, no state write, no  *)
(* error.                                                                  *)
(***************************************************************************)
C7_MissingTopicSilent ==
    (IsOutboundOp(last.op) /\ OutboundTopic(last.op) = Null)
    => /\ last.published = <<>>
       /\ last.write_ha_state = 0
       /\ last.raised = ""

(***************************************************************************)
(* C7, amended: every outbound call whose topic (the command topic; the    *)
(* send-command topic for async_send_command) is not configured publishes  *)
(* nothing and writes no state; it raises no error, except that            *)
(* async_select_source with a source outside the source list raises        *)
(* ValueError.                                                             *)
(***************************************************************************)
C7_MissingTopicNoPublish ==
    (IsOutboundOp(last.op) /\ OutboundTopic(last.op) = Null)
    => /\ last.published = <<>>
       /\ last.write_ha_state = 0
       /\ last.raised =
            IF /\ last.op = "async_select_source"
               /\ \A i \in DOMAIN source_list : source_list[i] # last.arg.s
              THEN "ValueError" ELSE ""

C7_Witness ==
    /\ last.op = "async_select_source"
    /\ _command_topic = Null
    /\ last.arg = Str("TV")
    /\ source_list = <<"TV", "Radio">>
    /\ last.published = <<>>
    /\ last.raised = ""

(***************************************************************************)
(* C8: async_send_command publishes exactly one message, to the            *)
(* send-command topic, when that topic is configured and the SEND_COMMAND  *)
(* feature is enabled; with the feature not enabled it publishes nothing   *)
(* and raises nothing, even with the topic configured.                     *)
(***************************************************************************)
C8_SendCommandGated ==
    last.op = "async_send_command" =>
        /\ (_send_command_topic # Null /\ "SEND_COMMAND" \in supported_features)
           => /\ Len(last.published) = 1
              /\ last.published[1].topic = _send_command_topic
        /\ "SEND_COMMAND" \notin supported_features
           => /\ last.published = <<>>
              /\ last.raised = ""

C8_Witness ==
    /\ last.op = "async_send_command"
    /\ _send_command_topic # Null
    /\ "SEND_COMMAND" \in supported_features
    /\ Len(last.published) = 1

C10_BatteryClamped ==
    IF _attr_battery_level = Null
      THEN _state_attrs = EmptyDict
      ELSE LET v == IF BATTERY \in DOMAIN _state_attrs
                      THEN _state_attrs[BATTERY].n ELSE 0
           IN  /\ _attr_battery_level.t = "num"
               /\ _attr_battery_level.n >= 0
               /\ _attr_battery_level.n <= 100
               /\ _attr_battery_level.n =
                    CASE v > 100 -> 100 [] v < 0 -> 0 [] OTHER -> v

C10_Witness ==
    /\ Received
    /\ BATTERY \in DOMAIN _state_attrs
    /\ _state_attrs[BATTERY] = Num(150)
    /\ _attr_battery_level = Num(100)

(***************************************************************************)
(* C11: messages are merged into the extras in delivery order, new keys    *)
(* overwriting: after a message every extras key holds the value of that   *)
(* message when the message has the key and its earlier value otherwise,   *)
(* no key is lost, and fan speed and battery level keep their values when  *)
(* the message omits fan_speed / battery_level and the key was received    *)
(* before.                                                                 *)
(***************************************************************************)
C11_MergeOverwrite ==
    [][ (last'.op = "state_message_received" /\ last'.msg.kind = "object")
        => LET m == last'.msg.obj
           IN  /\ \A k \in DOMAIN _state_attrs' :
                     IF k \in DOMAIN m
                       THEN _state_attrs'[k] = m[k]
                       ELSE /\ k \in DOMAIN _state_attrs
                            /\ _state_attrs'[k] = _state_attrs[k]
               /\ \A k \in DOMAIN _state_attrs : k \in DOMAIN _state_attrs'
               /\ (FAN_SPEED \notin DOMAIN m /\ FAN_SPEED \in DOMAIN _state_attrs)
                     => _attr_fan_speed' = _attr_fan_speed
               /\ (BATTERY \notin DOMAIN m /\ BATTERY \in DOMAIN _state_attrs)
                     => _attr_battery_level' = _attr_battery_level ]_vars

(***************************************************************************)
(* C12: the playback status changes only on a message with a `state` key:  *)
(* a message without the key leaves it unchanged, a `state` of null sets   *)
(* it to unknown (None), and one of the four literals sets it to that      *)
(* value.                                                                  *)
(***************************************************************************)
C12_StatusFollowsStateKey ==
    [][ /\ _attr_state' # _attr_state
           => /\ last'.op = "state_message_received"
              /\ last'.msg.kind = "object"
              /\ STATE_KEY \in DOMAIN last'.msg.obj
        /\ (last'.op = "state_message_received" /\ last'.msg.kind = "object")
           => LET m == last'.msg.obj
              IN  IF STATE_KEY \notin DOMAIN m
                    THEN _attr_state' = _attr_state
                    ELSE /\ m[STATE_KEY] = Null => _attr_state' = Null
                         /\ \A lit \in {"on", "off", "playing", "paused"} :
                              m[STATE_KEY] = Str(lit) => _attr_state' = Str(lit)
      ]_vars

C12_Witness ==
    /\ Received
    /\ last.msg.kind = "object"
    /\ DOMAIN last.msg.obj = {FAN_SPEED, "foo"}
    /\ last.raised = ""
    /\ _attr_state = Str("paused")

(***************************************************************************)
(* C13: no service call, whether it publishes, does nothing or raises,     *)
(* changes the playback status, the extras, the fan speed or the battery   *)
(* level; so under any interleaving the device state is the one the        *)
(* inbound messages alone produce.                                         *)
(***************************************************************************)
C13_CallsLeaveDeviceState ==
    [][ IsOutboundOp(last'.op) => UNCHANGED devvars ]_vars

C13_Witness ==
    /\ last.op = "async_turn_off"
    /\ last.published # <<>>
    /\ _attr_state = Str("playing")
    /\ _attr_fan_speed = Num(3)
    /\ _attr_battery_level = Num(100)

(***************************************************************************)
(* C14: a command-topic call that publishes makes exactly one              *)
(* async_write_ha_state call, after the publish and within the same call;  *)
(* a call that does not publish (missing topic, rejected source) makes     *)
(* none.                                                                   *)
(***************************************************************************)
C14_WriteFollowsPublish ==
    IsCommandOp(last.op) =>
        IF last.published # <<>>
          THEN /\ Len(last.events) = 2
               /\ last.events[1].call = "async_publish"
               /\ last.events[1].topic = _command_topic
               /\ last.events[2].call = "async_write_ha_state"
               /\ last.write_ha_state = 1
          ELSE /\ last.events = <<>>
               /\ last.write_ha_state = 0

C14_Witness ==
    /\ last.op = "async_media_play"
    /\ Len(last.published) = 1
    /\ last.events[Len(last.events)].call = "async_write_ha_state"

C16_MuteIgnoresArgument ==
    last.op = "async_mute_volume" =>
        last.published =
            IF _command_topic = Null THEN <<>>
            ELSE <<[topic |-> _command_topic,
                    payload |-> _payloads["payload_volume_mute"]]>>

C16_Witness ==
    /\ last.op = "async_mute_volume"
    /\ last.arg = False
    /\ Len(last.published) = 1
    /\ last.published[1].payload = Str("MUTE")

(***************************************************************************)
(* C17: for every source of the source list async_select_source publishes  *)
(* the configured SelectSource payload to the command topic: the payload   *)
(* is the same for any two listed sources and never names the source.      *)
(***************************************************************************)
C17_SourceNameNotSent ==
    ( /\ last.op = "async_select_source"
      /\ \E i \in DOMAIN source_list : source_list[i] = last.arg.s
      /\ _command_topic # Null )
    => last.published =
         <<[topic |-> _command_topic,
            payload |-> _payloads["payload_select_source"]]>>

C17_Witness ==
    /\ last.op = "async_select_source"
    /\ last.arg = Str("Radio")
    /\ Len(last.published) = 1
    /\ last.published[1].payload = Str("SRC")

(***************************************************************************)
(* C18: whether a command-topic call publishes does not depend on the      *)
(* enabled features: with the command topic configured (and, for           *)
(* async_select_source, a listed source) it publishes once whether or not  *)
(* its feature is enabled; only async_send_command looks at its feature.   *)
(***************************************************************************)
C18_FeaturesGateOnlySendCommand ==
    /\ ( /\ IsCommandOp(last.op)
         /\ _command_topic # Null
         /\ last.op = "async_select_source"
              => \E i \in DOMAIN source_list : source_list[i] = last.arg.s )
       => Len(last.published) = 1
    /\ (last.op = "async_send_command" /\ _send_command_topic # Null)
       => (last.published # <<>> <=> "SEND_COMMAND" \in supported_features)

C18_Witness ==
    /\ last.op = "async_turn_on"
    /\ "TURN_ON" \notin supported_features
    /\ Len(last.published) = 1

(***************************************************************************)
(* C19: under every configuration the schema accepts the SEND_COMMAND      *)
(* feature is never enabled, so nothing is ever published to the           *)
(* send-command topic.                                                     *)
(***************************************************************************)
C19_SendCommandNeverEnabled ==
    /\ "SEND_COMMAND" \notin supported_features
    /\ last.op = "async_send_command" => last.published = <<>>
    /\ \A i \in DOMAIN last.published :
          last.published[i].topic # Str("send")

C19_Witness ==
    /\ last.op = "async_send_command"
    /\ _send_command_topic # Null
    /\ last.params.kind = "dict"
    /\ last.published = <<>>

====
